---- MODULE Spec2Model ----
(***************************************************************************)
(* Dataset reconciliation of dbt-bigquery: replica topology                *)
(* (dataset.py: get_dataset_replication_config, needs_replication_update,  *)
(* apply_dataset_replication) and access entries                           *)
(* (is_access_entry_in_dataset, add_access_entry_to_dataset).              *)
(*                                                                         *)
(* How dataset.py lines 153-176 are read.  The text nests by indentation:  *)
(* the `for location in to_remove:` header (col 4) owns every line down to *)
(* 176; the `try:` of line 156 (col 8) is closed by the only handler at    *)
(* col 8, the `except` of line 175.  So each iteration of the drop loop    *)
(* runs: DROP (157); the primary block (159-173) with its own inner        *)
(* try/except around the SET of line 171; then line 174 executes whatever  *)
(* `sql` holds a second time; a GoogleAPIError from 157 or 174 lands in    *)
(* the handler of 175-176 and the loop goes on with the next region.       *)
(***************************************************************************)
EXTENDS Integers, Sequences, FiniteSets, TLC

Regions == {"A", "B", "C"}

None == "None"

\* invocations of apply_dataset_replication that may be in progress
Procs == {1, 2}

\* runs of apply_dataset_replication one invocation slot performs
MaxRuns == 2

\* longest list handed to needs_replication_update
MaxLen == 3

\* longest access entry list of a dataset
MaxEntries == 2

VARIABLES
    live,               \* the warehouse: [replicas : SUBSET Regions, primary]
    desired_replicas,   \* argument desired_replicas (a list)
    desired_primary,    \* argument desired_primary (None when not given)
    pc,                 \* per invocation: the warehouse call it makes next
    current,            \* per invocation: local `current` (line 128)
    to_add,             \* per invocation: local `to_add` (line 141)
    to_remove,          \* per invocation: local `to_remove` (line 152)
    add_left,           \* per invocation: regions the loop of 142 has not visited
    remove_left,        \* per invocation: regions the loop of 153 has not visited
    sql,                \* per invocation: local `sql`
    calls,              \* per invocation: mutating calls issued by the run, in order
    needs,              \* per invocation: result of needs_replication_update (line 131)
    lastq,              \* per invocation: how the metadata query of the run ended
    prev,               \* per invocation: summary of the run before this one
    runs,               \* per invocation: runs started
    access_entries,     \* dataset.access_entries (a list of AccessEntry)
    access_entry,       \* the candidate AccessEntry of the caller
    present,            \* last result of is_access_entry_in_dataset
    config,             \* a BigQueryDatasetConfig instance
    other,              \* a second BigQueryDatasetConfig instance
    errors,             \* what config.validate() did
    restored,           \* from_dict(config.name, config.to_dict())
    hashes,             \* compute_hash() of config and of other
    datasets_config,    \* argument of DatasetConfigManager(...) (None when not given)
    configs,            \* DatasetConfigManager.configs of the applier's manager
    dataset,            \* the live Dataset object handed to the applier
    schema_name,        \* argument schema_name
    result,             \* what the last call on manager or applier returned
    heap,               \* the objects reached by reference: identity -> value
    all_configs,        \* the mapping a caller got from get_all_configs()
    second              \* a second Dataset object, from create_dataset_with_config

replication_vars == <<live, desired_replicas, desired_primary, pc, current, to_add,
                      to_remove, add_left, remove_left, sql, calls, needs, lastq,
                      prev, runs>>

access_vars == <<access_entries, access_entry, present>>

config_vars == <<config, other, errors, restored, hashes>>

applier_vars == <<datasets_config, configs, dataset, schema_name, result>>

shared_vars == <<heap, all_configs, second>>

vars == <<replication_vars, access_vars, config_vars, applier_vars, shared_vars>>

----------------------------------------------------------------------------
(* Helpers *)

ToSet(s) == {s[i] : i \in DOMAIN s}

RECURSIVE SetToSeq(_)
SetToSeq(S) ==
    IF S = {} THEN <<>>
    ELSE LET x == CHOOSE y \in S : TRUE IN <<x>> \o SetToSeq(S \ {x})

\* Python truthiness of an Optional[str] region
Truthy(x) == x # None

\* a returned bool, as stored in a variable that starts as "none"
Py(b) == IF b THEN "True" ELSE "False"

\* the value of a variable no call has set yet
Unset == [t |-> "unset"]

\* the value of `result` before any call
NoResult == [op |-> "none"]

NoSql == [op |-> "NONE", region |-> None]

EmptyConfig == [replicas |-> <<>>, primary |-> None]

NoPrev == [ran |-> FALSE, allok |-> FALSE, ncalls |-> 0]

----------------------------------------------------------------------------
(* The warehouse (external collaborator): result of each call *)

LiveStates ==
    {[replicas |-> R, primary |-> p] :
        R \in SUBSET Regions, p \in Regions \cup {None}}

LiveOk(l) == l.primary \in l.replicas \cup {None}

\* rows of INFORMATION_SCHEMA.SCHEMATA_REPLICAS for the dataset
Rows(l) ==
    LET s == SetToSeq(l.replicas)
    IN [i \in DOMAIN s |->
          [replica_location |-> s[i], is_primary_replica |-> (s[i] = l.primary)]]

\* How the metadata query can end: with rows, with NotFound / BadRequest
\* ("Dataset doesn't exist or no replication configured", lines 79 and 82: only
\* a dataset without replicas answers so), or with any other failure.
QueryOutcomes(l) ==
    {"rows", "other"} \cup
    (IF l.replicas = {} THEN {"not_found", "bad_request"} ELSE {})

\* How a DDL statement can end.  Any statement may fail; adding a replica that
\* is there reports "already exists"; dropping a replica that is not there, or
\* making a region that is no replica the default replica, fails.
DdlOutcomes(l, q) ==
    CASE q.op = "ADD"  -> IF q.region \in l.replicas THEN {"exists", "fail"}
                                                      ELSE {"ok", "fail"}
      [] q.op = "DROP" -> IF q.region \in l.replicas THEN {"ok", "fail"}
                                                      ELSE {"fail"}
      [] q.op = "SET"  -> IF q.region \in l.replicas THEN {"ok", "fail"}
                                                      ELSE {"fail"}

\* Only an accepted statement changes the warehouse; a dropped primary leaves
\* no row with is_primary_replica set.
DdlEffect(l, q, o) ==
    IF o # "ok" THEN l
    ELSE CASE q.op = "ADD"  -> [l EXCEPT !.replicas = @ \cup {q.region}]
           [] q.op = "DROP" -> [replicas |-> l.replicas \ {q.region},
                                primary  |-> IF l.primary = q.region THEN None
                                             ELSE l.primary]
           [] q.op = "SET"  -> [l EXCEPT !.primary = q.region]

----------------------------------------------------------------------------
(* dataset.py: pure functions *)

\* lines 71-77: the loop over the rows
RECURSIVE FoldRows(_, _)
FoldRows(rows, acc) ==
    IF rows = <<>> THEN acc
    ELSE LET row == Head(rows)
             a1  == [replicas |-> Append(acc.replicas, row.replica_location),
                     primary  |-> IF row.is_primary_replica
                                  THEN row.replica_location ELSE acc.primary]
         IN FoldRows(Tail(rows), a1)

Raises_BadRequest(o) == o \notin {"rows", "not_found"}

\* line 78: only NotFound and BadRequest are caught; any other failure of the
\* metadata query leaves get_dataset_replication_config as an exception
Raises(o) == o \notin {"rows", "not_found", "bad_request"}

get_dataset_replication_config_Cached(l, o) ==
    IF runs[1] = 0
    THEN IF o = "rows" THEN FoldRows(Rows(l), EmptyConfig) ELSE EmptyConfig
    ELSE current[1]

\* lines 69-84, for the outcomes that do not raise
get_dataset_replication_config(l, o) ==
    IF o = "rows" THEN FoldRows(Rows(l), EmptyConfig)
    ELSE EmptyConfig

needs_replication_update_Lists(current_config, desired, primary) ==
    IF current_config.replicas # desired THEN TRUE
    ELSE Truthy(primary) /\ current_config.primary # primary

needs_replication_update_Consistent(current_config, desired, primary) ==
    IF ToSet(current_config.replicas) # ToSet(desired) THEN TRUE
    ELSE /\ Truthy(primary)
         /\ primary \in ToSet(desired)
         /\ current_config.primary # primary

\* lines 102-108
needs_replication_update(current_config, desired, primary) ==
    LET current_replicas     == ToSet(current_config.replicas)
        desired_replicas_set == ToSet(desired)
    IN IF current_replicas # desired_replicas_set THEN TRUE
       ELSE Truthy(primary) /\ current_config.primary # primary

ToAdd_Everything(cur, desired) == ToSet(desired)

\* line 141
ToAdd(cur, desired) == ToSet(desired) \ ToSet(cur.replicas)

\* line 152
ToRemove(cur, desired) == ToSet(cur.replicas) \ ToSet(desired)

PrimaryDue_AnyRegion(cur, desired, primary) ==
    /\ Truthy(primary)
    /\ cur.primary # primary

\* lines 159-164: is the SET statement of 165-171 reached
PrimaryDue(cur, desired, primary) ==
    /\ Truthy(primary)
    /\ primary \in ToSet(desired)
    /\ cur.primary # primary

----------------------------------------------------------------------------
(* apply_dataset_replication, one action per warehouse call *)

Finished(p) == pc[p] \in {"idle", "done", "raised"}

AfterAdds(al, rl) == IF al # {} THEN "add" ELSE IF rl # {} THEN "drop" ELSE "done"

AfterIteration(rl) == IF rl # {} THEN "drop" ELSE "done"

\* line 148: "already exists" is not a failure
Succeeded(o) == o \in {"ok", "exists"}

AllOk(cs) == \A i \in DOMAIN cs : Succeeded(cs[i].outcome)

Call(q, site, o) == [op |-> q.op, region |-> q.region, site |-> site, outcome |-> o]

\* lines 128-138: the metadata query, the decision and the plan
Observe(p) ==
    /\ Finished(p)
    /\ runs[p] < MaxRuns
    /\ runs' = [runs EXCEPT ![p] = @ + 1]
    /\ prev' = [prev EXCEPT ![p] =
                  [ran    |-> pc[p] = "done",
                   allok  |-> pc[p] = "done" /\ AllOk(calls[p]),
                   ncalls |-> Len(calls[p])]]
    /\ calls' = [calls EXCEPT ![p] = <<>>]
    /\ sql' = [sql EXCEPT ![p] = NoSql]
    /\ \E o \in QueryOutcomes(live) :
         /\ lastq' = [lastq EXCEPT ![p] = o]
         /\ IF Raises(o)
            THEN /\ pc' = [pc EXCEPT ![p] = "raised"]
                 /\ needs' = [needs EXCEPT ![p] = "none"]
                 /\ current' = [current EXCEPT ![p] = EmptyConfig]
                 /\ to_add' = [to_add EXCEPT ![p] = {}]
                 /\ to_remove' = [to_remove EXCEPT ![p] = {}]
                 /\ add_left' = [add_left EXCEPT ![p] = {}]
                 /\ remove_left' = [remove_left EXCEPT ![p] = {}]
            ELSE LET cur == get_dataset_replication_config(live, o)
                     upd == needs_replication_update(cur, desired_replicas,
                                                     desired_primary)
                     ta  == IF upd THEN ToAdd(cur, desired_replicas) ELSE {}
                     tr  == IF upd THEN ToRemove(cur, desired_replicas) ELSE {}
                 IN /\ current' = [current EXCEPT ![p] = cur]
                    /\ needs' = [needs EXCEPT ![p] = Py(upd)]
                    /\ to_add' = [to_add EXCEPT ![p] = ta]
                    /\ to_remove' = [to_remove EXCEPT ![p] = tr]
                    /\ add_left' = [add_left EXCEPT ![p] = ta]
                    /\ remove_left' = [remove_left EXCEPT ![p] = tr]
                    /\ pc' = [pc EXCEPT ![p] = AfterAdds(ta, tr)]
    /\ UNCHANGED <<shared_vars, live, desired_replicas, desired_primary, access_vars, config_vars,
                   applier_vars>>

\* lines 142-149: one iteration of the add loop
AddReplica(p) ==
    /\ pc[p] = "add"
    /\ \E location \in add_left[p] :
         LET q == [op |-> "ADD", region |-> location]
         IN \E o \in DdlOutcomes(live, q) :
              /\ live' = DdlEffect(live, q, o)
              /\ sql' = [sql EXCEPT ![p] = q]
              /\ calls' = [calls EXCEPT ![p] = Append(@, Call(q, 146, o))]
              /\ add_left' = [add_left EXCEPT ![p] = @ \ {location}]
              /\ pc' = [pc EXCEPT ![p] =
                          AfterAdds(add_left[p] \ {location}, remove_left[p])]
    /\ UNCHANGED <<shared_vars, desired_replicas, desired_primary, current, to_add, to_remove,
                   remove_left, needs, lastq, prev, runs, access_vars, config_vars,
                   applier_vars>>

AfterDrop_Unhandled(p, o, rl) ==
    IF o = "fail" THEN "raised"
    ELSE IF PrimaryDue(current[p], desired_replicas, desired_primary)
         THEN "set" ELSE "again"

\* where the drop iteration goes after the DROP of line 157 ended with o
AfterDrop(p, o, rl) ==
    IF o = "fail" THEN AfterIteration(rl)
    ELSE IF PrimaryDue(current[p], desired_replicas, desired_primary)
         THEN "set" ELSE "again"

\* lines 153-157 (and 175-176 when the DROP fails): the DROP of one iteration
DropReplica(p) ==
    /\ pc[p] = "drop"
    /\ \E location \in remove_left[p] :
         LET q == [op |-> "DROP", region |-> location]
         IN \E o \in DdlOutcomes(live, q) :
              /\ live' = DdlEffect(live, q, o)
              /\ sql' = [sql EXCEPT ![p] = q]
              /\ calls' = [calls EXCEPT ![p] = Append(@, Call(q, 157, o))]
              /\ remove_left' = [remove_left EXCEPT ![p] = @ \ {location}]
              /\ pc' = [pc EXCEPT ![p] =
                          AfterDrop(p, o, remove_left[p] \ {location})]
    /\ UNCHANGED <<shared_vars, desired_replicas, desired_primary, current, to_add, to_remove,
                   add_left, needs, lastq, prev, runs, access_vars, config_vars,
                   applier_vars>>

\* lines 165-173: the SET statement, its failure handled on 172-173
SetPrimary(p) ==
    /\ pc[p] = "set"
    /\ LET q == [op |-> "SET", region |-> desired_primary]
       IN \E o \in DdlOutcomes(live, q) :
            /\ live' = DdlEffect(live, q, o)
            /\ sql' = [sql EXCEPT ![p] = q]
            /\ calls' = [calls EXCEPT ![p] = Append(@, Call(q, 171, o))]
            /\ pc' = [pc EXCEPT ![p] = "again"]
    /\ UNCHANGED <<shared_vars, desired_replicas, desired_primary, current, to_add, to_remove,
                   add_left, remove_left, needs, lastq, prev, runs, access_vars, config_vars,
                   applier_vars>>

\* lines 174-176: `sql` executed once more, its failure handled on 175-176
Again(p) ==
    /\ pc[p] = "again"
    /\ LET q == sql[p]
       IN \E o \in DdlOutcomes(live, q) :
            /\ live' = DdlEffect(live, q, o)
            /\ calls' = [calls EXCEPT ![p] = Append(@, Call(q, 174, o))]
            /\ pc' = [pc EXCEPT ![p] = AfterIteration(remove_left[p])]
    /\ UNCHANGED <<shared_vars, desired_replicas, desired_primary, current, to_add, to_remove,
                   add_left, remove_left, sql, needs, lastq, prev, runs, access_vars, config_vars,
                   applier_vars>>

Step(p) ==
    \/ Observe(p)
    \/ AddReplica(p)
    \/ DropReplica(p)
    \/ SetPrimary(p)
    \/ Again(p)

----------------------------------------------------------------------------
(* Sequential runs of one invocation slot *)

DesiredLists == {SetToSeq(S) : S \in SUBSET Regions}

Idle ==
    /\ pc = [p \in Procs |-> "idle"]
    /\ current = [p \in Procs |-> EmptyConfig]
    /\ to_add = [p \in Procs |-> {}]
    /\ to_remove = [p \in Procs |-> {}]
    /\ add_left = [p \in Procs |-> {}]
    /\ remove_left = [p \in Procs |-> {}]
    /\ sql = [p \in Procs |-> NoSql]
    /\ needs = [p \in Procs |-> "none"]
    /\ calls = [p \in Procs |-> <<>>]
    /\ lastq = [p \in Procs |-> "none"]
    /\ prev = [p \in Procs |-> NoPrev]
    /\ runs = [p \in Procs |-> 0]

NoEntry == [role |-> None, entity_type |-> None, properties |-> {}]

NoAccess ==
    /\ access_entries = <<>>
    /\ access_entry = NoEntry
    /\ present = "none"

NoConfig ==
    /\ config = Unset
    /\ other = Unset
    /\ errors = Unset
    /\ restored = Unset
    /\ hashes = Unset

NoApplier ==
    /\ datasets_config = Unset
    /\ configs = Unset
    /\ dataset = Unset
    /\ schema_name = Unset
    /\ result = NoResult

NoShared ==
    /\ heap = Unset
    /\ all_configs = Unset
    /\ second = Unset

Init ==
    /\ live \in {l \in LiveStates : LiveOk(l)}
    /\ desired_replicas \in DesiredLists
    /\ desired_primary \in Regions \cup {None}
    /\ Idle
    /\ NoAccess
    /\ NoConfig
    /\ NoApplier
    /\ NoShared

Next == Step(1)

Spec == Init /\ [][Next]_vars

----------------------------------------------------------------------------
(* needs_replication_update on arbitrary lists *)

Lists(n) == UNION {[1..k -> Regions] : k \in 0..n}

Configs(n) ==
    {[replicas |-> r, primary |-> q] : r \in Lists(n), q \in Regions \cup {None}}

InitDecide ==
    /\ live = [replicas |-> {}, primary |-> None]
    /\ desired_replicas \in Lists(MaxLen)
    /\ desired_primary \in Regions \cup {None}
    /\ \E c \in Configs(MaxLen) : current = [p \in Procs |-> c]
    /\ pc = [p \in Procs |-> "decide"]
    /\ to_add = [p \in Procs |-> {}]
    /\ to_remove = [p \in Procs |-> {}]
    /\ add_left = [p \in Procs |-> {}]
    /\ remove_left = [p \in Procs |-> {}]
    /\ sql = [p \in Procs |-> NoSql]
    /\ needs = [p \in Procs |-> "none"]
    /\ calls = [p \in Procs |-> <<>>]
    /\ lastq = [p \in Procs |-> "none"]
    /\ prev = [p \in Procs |-> NoPrev]
    /\ runs = [p \in Procs |-> 0]
    /\ NoAccess
    /\ NoConfig
    /\ NoApplier
    /\ NoShared

\* lines 87-108: one call of needs_replication_update
Decide(p) ==
    /\ pc[p] = "decide"
    /\ needs' = [needs EXCEPT ![p] =
                   Py(needs_replication_update(current[p], desired_replicas,
                                               desired_primary))]
    /\ pc' = [pc EXCEPT ![p] = "decided"]
    /\ UNCHANGED <<shared_vars, live, desired_replicas, desired_primary, current, to_add,
                   to_remove, add_left, remove_left, sql, calls, lastq, prev, runs,
                   access_vars, config_vars,
                   applier_vars>>

NextDecide == Decide(1)

SpecDecide == InitDecide /\ [][NextDecide]_vars

----------------------------------------------------------------------------
(* Access entries: is_access_entry_in_dataset, add_access_entry_to_dataset *)

Roles == {"READER", "WRITER"}

EntityTypes == {"userByEmail", "view"}

\* items (key, value) an AccessEntry._properties mapping may hold
PropItems == {<<"k1", "v1">>, <<"k1", "v2">>, <<"k2", "v1">>}

\* mappings: at most one value per key
PropDicts ==
    {d \in SUBSET PropItems : \A x, y \in d : x[1] = y[1] => x = y}

Entries == [role : Roles, entity_type : EntityTypes, properties : PropDicts]

EntryLists(n) == UNION {[1..k -> Entries] : k \in 0..n}

PropertyMatch_Reversed(existing_entry, candidate) ==
    candidate.properties \subseteq existing_entry.properties

\* line 28: existing_entry._properties.items() <= access_entry._properties.items()
PropertyMatch(existing_entry, candidate) ==
    existing_entry.properties \subseteq candidate.properties

\* lines 25-31: the loop from existing entry number i on
RECURSIVE EntryLoop(_, _, _)
EntryLoop(entries, i, candidate) ==
    IF i > Len(entries) THEN FALSE
    ELSE LET existing_entry    == entries[i]
             role_match        == existing_entry.role = candidate.role
             entity_type_match == existing_entry.entity_type = candidate.entity_type
             property_match    == PropertyMatch(existing_entry, candidate)
         IN IF role_match /\ entity_type_match /\ property_match THEN TRUE
            ELSE EntryLoop(entries, i + 1, candidate)

is_access_entry_in_dataset_Equality(entries, candidate) ==
    \E i \in DOMAIN entries : entries[i] = candidate

\* lines 12-31
is_access_entry_in_dataset(entries, candidate) == EntryLoop(entries, 1, candidate)

\* lines 45-48
add_access_entry_to_dataset(entries, candidate) == Append(entries, candidate)

InitAccess ==
    /\ live = [replicas |-> {}, primary |-> None]
    /\ desired_replicas = <<>>
    /\ desired_primary = None
    /\ Idle
    /\ access_entries \in EntryLists(MaxEntries)
    /\ access_entry \in Entries
    /\ present = "none"
    /\ NoConfig
    /\ NoApplier
    /\ NoShared

\* a call of is_access_entry_in_dataset(dataset, access_entry)
CheckEntry ==
    /\ present' = Py(is_access_entry_in_dataset(access_entries, access_entry))
    /\ UNCHANGED <<shared_vars, replication_vars, config_vars, applier_vars, access_entries, access_entry>>

\* a call of add_access_entry_to_dataset(dataset, access_entry); the result of an
\* earlier check says nothing about the new list
AddEntry ==
    /\ Len(access_entries) < MaxEntries
    /\ access_entries' = add_access_entry_to_dataset(access_entries, access_entry)
    /\ present' = "none"
    /\ UNCHANGED <<shared_vars, replication_vars, config_vars, applier_vars, access_entry>>

NextAccess == CheckEntry \/ AddEntry

SpecAccess == InitAccess /\ [][NextAccess]_vars

----------------------------------------------------------------------------
(* The caller's protocol: check, and add only when the check said absent *)

\* the dataset's access list as fetched: empty, or one entry
FetchedEntryLists == {<<>>} \cup {<<e>> : e \in Entries}

InitCheckThenAdd ==
    /\ live = [replicas |-> {}, primary |-> None]
    /\ desired_replicas = <<>>
    /\ desired_primary = None
    /\ Idle
    /\ access_entries \in FetchedEntryLists
    /\ access_entry \in Entries
    /\ present = "none"
    /\ NoConfig
    /\ NoApplier
    /\ NoShared

\* the caller turns to another candidate
NextCandidate ==
    /\ \E e \in Entries \ {access_entry} : access_entry' = e
    /\ present' = "none"
    /\ UNCHANGED <<shared_vars, replication_vars, config_vars, applier_vars, access_entries>>

\* add_access_entry_to_dataset, called as its docstring (lines 35-36) asks:
\* only when the check just made for this candidate on this list returned False
AddIfAbsent ==
    /\ present = "False"
    /\ Len(access_entries) < MaxEntries
    /\ access_entries' = add_access_entry_to_dataset(access_entries, access_entry)
    /\ present' = "none"
    /\ UNCHANGED <<shared_vars, replication_vars, config_vars, applier_vars, access_entry>>

NextCheckThenAdd == NextCandidate \/ CheckEntry \/ AddIfAbsent

SpecCheckThenAdd == InitCheckThenAdd /\ [][NextCheckThenAdd]_vars

----------------------------------------------------------------------------
(* Python values of the configuration layer (dataset_config.py).  A value  *)
(* carries its type, so that truthiness, isinstance and ==, on which the    *)
(* code branches, are computed as Python computes them.                     *)

PyNone == [t |-> "NoneType"]

PyStr(s) == [t |-> "str", s |-> s]

PyInt(i) == [t |-> "int", i |-> i]

PyBool(b) == [t |-> "bool", b |-> b]

PyList(xs) == [t |-> "list", xs |-> xs]

\* a dict is its <<key, value>> pairs in insertion order, keys distinct
PyDict(items) == [t |-> "dict", items |-> items]

\* the outcome of a call that ended in an exception
Raised == [t |-> "raised"]

\* truth value of `if x:` / `not x`; class instances define neither __bool__
\* nor __len__ and are true
bool(x) ==
    CASE x.t = "NoneType" -> FALSE
      [] x.t = "str" -> x.s # ""
      [] x.t = "int" -> x.i # 0
      [] x.t = "bool" -> x.b
      [] x.t = "list" -> x.xs # <<>>
      [] x.t = "dict" -> x.items # <<>>
      [] OTHER -> TRUE

isinstance(x, type) == x.t = type

Keys(d) == {d.items[i][1] : i \in DOMAIN d.items}

\* d.get(key, default)
Get(d, key, default) ==
    IF key \in Keys(d)
    THEN d.items[CHOOSE i \in DOMAIN d.items : d.items[i][1] = key][2]
    ELSE default

\* x == y: dicts compare as sets of pairs, lists position by position
RECURSIVE PyEq(_, _)
PyEq(x, y) ==
    IF x.t = "dict" /\ y.t = "dict"
    THEN /\ Keys(x) = Keys(y)
         /\ \A k \in Keys(x) : PyEq(Get(x, k, PyNone), Get(y, k, PyNone))
    ELSE IF x.t = "list" /\ y.t = "list"
    THEN /\ Len(x.xs) = Len(y.xs)
         /\ \A i \in DOMAIN x.xs : PyEq(x.xs[i], y.xs[i])
    ELSE x = y

\* d[key] = value on a dict: a new key goes last, a known key keeps its place
SetItem(d, key, value) ==
    IF key \in Keys(d)
    THEN PyDict([i \in DOMAIN d.items |->
                   IF d.items[i][1] = key THEN <<key, value>> ELSE d.items[i]])
    ELSE PyDict(Append(d.items, <<key, value>>))

----------------------------------------------------------------------------
(* BigQueryReplicationConfig and BigQueryDatasetConfig (dataset_config.py) *)

\* lines 9-15: the dataclass BigQueryReplicationConfig
BigQueryReplicationConfig(enabled, replicas, primary_location) ==
    [t |-> "BigQueryReplicationConfig", enabled |-> enabled,
     replicas |-> replicas, primary_location |-> primary_location]

\* lines 17-23: BigQueryReplicationConfig.to_dict
Replication_to_dict(r) ==
    PyDict(<< <<PyStr("enabled"), r.enabled>>,
              <<PyStr("replicas"), r.replicas>>,
              <<PyStr("primary_location"), r.primary_location>> >>)

\* lines 25-32: BigQueryReplicationConfig.from_dict; data.get on anything but a
\* dict is an AttributeError
Replication_from_dict(data) ==
    IF ~isinstance(data, "dict") THEN Raised
    ELSE BigQueryReplicationConfig(Get(data, PyStr("enabled"), PyBool(TRUE)),
                                   Get(data, PyStr("replicas"), PyList(<<>>)),
                                   Get(data, PyStr("primary_location"), PyNone))

\* lines 35-50: the dataclass BigQueryDatasetConfig with its __post_init__
BigQueryDatasetConfig(name, location, replication, labels, description, default_table_expiration_ms, default_partition_expiration_ms) ==
    [t |-> "BigQueryDatasetConfig",
     name |-> name,
     location |-> location,
     replication |-> IF bool(replication) /\ isinstance(replication, "dict")
                     THEN Replication_from_dict(replication)
                     ELSE replication,
     labels |-> labels,
     description |-> description,
     default_table_expiration_ms |-> default_table_expiration_ms,
     default_partition_expiration_ms |-> default_partition_expiration_ms]

\* add the pair when the condition of the `if` holds
PutIf(cond, d, key, value) == IF cond THEN SetItem(d, key, value) ELSE d

OptionalKeys_Enabled(c, r0) ==
    LET on == c.replication # PyNone /\ bool(c.replication.enabled)
        r1 == PutIf(on, r0, PyStr("replication"), Replication_to_dict(c.replication))
        r2 == PutIf(bool(c.description), r1, PyStr("description"), c.description)
        r3 == PutIf(bool(c.default_table_expiration_ms), r2,
                    PyStr("default_table_expiration_ms"),
                    c.default_table_expiration_ms)
    IN  PutIf(bool(c.default_partition_expiration_ms), r3,
              PyStr("default_partition_expiration_ms"),
              c.default_partition_expiration_ms)

\* lines 60-70: the optional keys of to_dict, added to `r0`
OptionalKeys(c, r0) ==
    LET r1 == PutIf(bool(c.replication), r0, PyStr("replication"),
                    Replication_to_dict(c.replication))
        r2 == PutIf(bool(c.description), r1, PyStr("description"), c.description)
        r3 == PutIf(bool(c.default_table_expiration_ms), r2,
                    PyStr("default_table_expiration_ms"),
                    c.default_table_expiration_ms)
    IN  PutIf(bool(c.default_partition_expiration_ms), r3,
              PyStr("default_partition_expiration_ms"),
              c.default_partition_expiration_ms)

to_dict_WithoutLocation(c) ==
    OptionalKeys(c, PyDict(<< <<PyStr("name"), c.name>>,
                              <<PyStr("labels"), c.labels>> >>))

\* lines 52-72: BigQueryDatasetConfig.to_dict
to_dict(c) ==
    OptionalKeys(c, PyDict(<< <<PyStr("name"), c.name>>,
                              <<PyStr("location"), c.location>>,
                              <<PyStr("labels"), c.labels>> >>))

\* lines 74-90: BigQueryDatasetConfig.from_dict
from_dict(name, data) ==
    LET replication_data == Get(data, PyStr("replication"), PyNone)
        replication == IF bool(replication_data)
                       THEN Replication_from_dict(replication_data)
                       ELSE PyNone
    IN  IF replication = Raised THEN Raised
        ELSE BigQueryDatasetConfig(
                 name,
                 Get(data, PyStr("location"), PyStr("US")),
                 replication,
                 Get(data, PyStr("labels"), PyDict(<<>>)),
                 Get(data, PyStr("description"), PyNone),
                 Get(data, PyStr("default_table_expiration_ms"), PyNone),
                 Get(data, PyStr("default_partition_expiration_ms"), PyNone))

has_replication_Present(c) == PyBool(c.replication # PyNone)

\* lines 97-99: BigQueryDatasetConfig.has_replication; `and` returns its
\* second operand when the first is true
has_replication(c) ==
    IF c.replication # PyNone THEN c.replication.enabled ELSE PyBool(FALSE)

\* a message of validate(); the text after "Dataset '<name>': " where the code
\* puts that prefix
Message(text) == [text |-> text]

\* the messages a loop appends that finds `bad` offending elements
Messages(bad, text) == [i \in 1..Len(bad) |-> Message(text)]

\* lines 101-136: BigQueryDatasetConfig.validate.  Line 125 iterates
\* replication.replicas and line 132 calls labels.items(): on a value that is
\* no list, respectively no dict, the call ends in TypeError / AttributeError.
validate(c) ==
    LET rep == c.replication
        e_name == IF ~bool(c.name)
                  THEN <<Message("Dataset name is required")>> ELSE <<>>
        e_location == IF ~bool(c.location)
                      THEN <<Message("Dataset location is required")>> ELSE <<>>
        e_replicas == IF ~bool(rep.replicas)
                      THEN <<Message("replication enabled but no replicas specified")>>
                      ELSE <<>>
        e_primary == IF ~bool(rep.primary_location)
                     THEN <<Message("replication enabled but no primary_location specified")>>
                     ELSE <<>>
        BadReplica(replica) == ~bool(replica) \/ ~isinstance(replica, "str")
        BadLabel(item) == ~isinstance(item[1], "str") \/ ~isinstance(item[2], "str")
    IN  IF bool(has_replication(c)) /\ ~isinstance(rep.replicas, "list")
        THEN Raised
        ELSE IF ~isinstance(c.labels, "dict")
        THEN Raised
        ELSE PyList(e_name \o e_location
                    \o (IF bool(has_replication(c))
                        THEN e_replicas \o e_primary
                             \o Messages(SelectSeq(rep.replicas.xs, BadReplica),
                                         "invalid replica location")
                        ELSE <<>>)
                    \o Messages(SelectSeq(c.labels.items, BadLabel),
                                "labels must be string key-value pairs"))

\* the keys that occur in a serialized config, in the order sorted() puts them
SortedKeys ==
    <<"default_partition_expiration_ms", "default_table_expiration_ms",
      "description", "enabled", "env", "labels", "location", "name",
      "primary_location", "replicas", "replication", "tier">>

KeyRank(key) == CHOOSE i \in DOMAIN SortedKeys : SortedKeys[i] = key.s

RECURSIVE SortItems(_)
SortItems(items) ==
    IF items = <<>> THEN <<>>
    ELSE LET m == CHOOSE i \in DOMAIN items :
                      \A j \in DOMAIN items :
                          KeyRank(items[i][1]) <= KeyRank(items[j][1])
             rest == [i \in 1..(Len(items) - 1) |->
                        IF i < m THEN items[i] ELSE items[i + 1]]
         IN  <<items[m]>> \o SortItems(rest)

\* json.dumps(x, sort_keys=...): the text, given as the tree it spells out;
\* the pairs of every dict come in key order when sort_keys is set and in
\* insertion order otherwise
RECURSIVE json_dumps(_, _)
json_dumps(x, sort_keys) ==
    IF x.t = "dict"
    THEN LET items == IF sort_keys THEN SortItems(x.items) ELSE x.items
         IN  [json |-> "object",
              members |-> [i \in DOMAIN items |->
                             <<items[i][1].s, json_dumps(items[i][2], sort_keys)>>]]
    ELSE IF x.t = "list"
    THEN [json |-> "array",
          elements |-> [i \in DOMAIN x.xs |-> json_dumps(x.xs[i], sort_keys)]]
    ELSE IF x.t = "NoneType" THEN [json |-> "null"]
    ELSE IF x.t = "str" THEN [json |-> "string", s |-> x.s]
    ELSE IF x.t = "int" THEN [json |-> "number", i |-> x.i]
    ELSE [json |-> "boolean", b |-> x.b]

\* hashlib.sha256(text).hexdigest()[:16]: a digest names the text it was
\* computed from; distinct texts are taken to have distinct digests
sha256_16(text) == [sha256_16 |-> text]

compute_hash_Unsorted(c) == sha256_16(json_dumps(to_dict(c), FALSE))

\* lines 92-95: BigQueryDatasetConfig.compute_hash
compute_hash(c) == sha256_16(json_dumps(to_dict(c), TRUE))

----------------------------------------------------------------------------
(* DatasetConfigManager (dataset_config.py) *)

RECURSIVE parse_configs_Break(_, _)
parse_configs_Break(stored, items) ==
    IF items = <<>> THEN stored
    ELSE IF ~isinstance(Head(items)[2], "dict") THEN stored
    ELSE IF from_dict(Head(items)[1], Head(items)[2]) = Raised THEN Raised
    ELSE parse_configs_Break(SetItem(stored, Head(items)[1],
                                     from_dict(Head(items)[1], Head(items)[2])),
                             Tail(items))

\* lines 149-156: DatasetConfigManager._parse_configs, from the pair `items`
\* starts with on; an exception of from_dict leaves the loop and the constructor
RECURSIVE parse_configs(_, _)
parse_configs(stored, items) ==
    IF items = <<>> THEN stored
    ELSE LET name == Head(items)[1]
             config_data == Head(items)[2]
         IN  IF ~isinstance(config_data, "dict")
             THEN parse_configs(stored, Tail(items))
             ELSE IF from_dict(name, config_data) = Raised THEN Raised
             ELSE parse_configs(SetItem(stored, name, from_dict(name, config_data)),
                                Tail(items))

\* lines 142-147: DatasetConfigManager.__init__
DatasetConfigManager(raw) ==
    LET parsed == IF bool(raw) THEN parse_configs(PyDict(<<>>), raw.items)
                  ELSE PyDict(<<>>)
    IN  IF parsed = Raised THEN Raised
        ELSE [t |-> "DatasetConfigManager", configs |-> parsed]

get_config_Any(stored, name) ==
    IF stored.items = <<>> THEN PyNone ELSE stored.items[1][2]

\* lines 158-160: DatasetConfigManager.get_config
get_config(stored, name) == Get(stored, name, PyNone)

\* lines 162-164: DatasetConfigManager.has_config
has_config(stored, name) == name \in Keys(stored)

----------------------------------------------------------------------------
(* DatasetConfigApplier (dataset_config_applier.py) *)

\* lines 17-19: DatasetConfigApplier.__init__
DatasetConfigApplier(config_manager) ==
    [t |-> "DatasetConfigApplier",
     config_manager |-> IF bool(config_manager) THEN config_manager
                        ELSE DatasetConfigManager(PyNone)]

\* the attributes apply_config_to_dataset may assign
Applied ==
    {"location", "description", "labels", "default_table_expiration_ms",
     "default_partition_expiration_ms"}

SetIf_Always(ds, c, attribute) == [ds EXCEPT ![attribute] = c[attribute]]

SetIf_NotNone(ds, c, attribute) ==
    IF c[attribute] # PyNone THEN [ds EXCEPT ![attribute] = c[attribute]] ELSE ds

SetIf_ExceptLabels(ds, c, attribute) ==
    IF bool(c[attribute]) /\ attribute # "labels"
    THEN [ds EXCEPT ![attribute] = c[attribute]] ELSE ds

\* `if config.<attribute>: dataset.<attribute> = config.<attribute>`
SetIf(ds, c, attribute) ==
    IF bool(c[attribute]) THEN [ds EXCEPT ![attribute] = c[attribute]] ELSE ds

\* lines 21-63: DatasetConfigApplier.apply_config_to_dataset
apply_config_to_dataset(stored, ds, name) ==
    LET c == get_config(stored, name)
    IN  IF ~bool(c) THEN ds
        ELSE SetIf(SetIf(SetIf(SetIf(SetIf(ds, c, "location"),
                                     c, "description"),
                               c, "labels"),
                         c, "default_table_expiration_ms"),
                   c, "default_partition_expiration_ms")

Differs_Unspecified(ds, c, attribute) == ~PyEq(ds[attribute], c[attribute])

\* `if config.<attribute> and existing_dataset.<attribute> != config.<attribute>`
Differs(ds, c, attribute) ==
    bool(c[attribute]) /\ ~PyEq(ds[attribute], c[attribute])

\* lines 112-115: existing_labels = existing_dataset.labels or {}
LabelsDiffer(ds, c) ==
    /\ bool(c.labels)
    /\ ~PyEq(IF bool(ds.labels) THEN ds.labels ELSE PyDict(<<>>), c.labels)

\* lines 86-126: DatasetConfigApplier.should_update_dataset
should_update_dataset(stored, ds, name) ==
    LET c == get_config(stored, name)
    IN  IF ~bool(c) THEN FALSE
        ELSE IF Differs(ds, c, "location") THEN TRUE
        ELSE IF Differs(ds, c, "description") THEN TRUE
        ELSE IF LabelsDiffer(ds, c) THEN TRUE
        ELSE IF Differs(ds, c, "default_table_expiration_ms") THEN TRUE
        ELSE IF Differs(ds, c, "default_partition_expiration_ms") THEN TRUE
        ELSE FALSE

\* lines 128-142: DatasetConfigApplier.get_replication_config
get_replication_config(stored, name) ==
    LET c == get_config(stored, name)
    IN  IF ~bool(c) \/ ~bool(has_replication(c)) THEN PyNone
        ELSE Replication_to_dict(c.replication)

----------------------------------------------------------------------------
(* Inputs: raw mappings as the project file yields them *)

\* stands for a key the mapping does not have
Absent == [t |-> "absent"]

\* the dict of the pairs whose value is given
DictOf(pairs) == PyDict(SelectSeq(pairs, LAMBDA p : p[2] # Absent))

Names == {PyStr(""), PyStr("analytics")}

EnvProd == PyDict(<< <<PyStr("env"), PyStr("prod")>> >>)

EnvDev == PyDict(<< <<PyStr("env"), PyStr("dev")>> >>)

RawReplicas ==
    {Absent, PyNone, PyList(<<>>), PyList(<<PyStr("A"), PyStr("B")>>),
     PyList(<<PyStr("A"), PyStr("")>>)}

RawReplications ==
    {DictOf(<< <<PyStr("enabled"), e>>, <<PyStr("replicas"), r>>,
               <<PyStr("primary_location"), q>> >>) :
        e \in {Absent, PyBool(TRUE), PyBool(FALSE)},
        r \in RawReplicas,
        q \in {Absent, PyStr("A"), PyStr("C")}}

RawDataset(location, description, labels, table_ms, partition_ms, replication) ==
    DictOf(<< <<PyStr("location"), location>>,
              <<PyStr("description"), description>>,
              <<PyStr("labels"), labels>>,
              <<PyStr("default_table_expiration_ms"), table_ms>>,
              <<PyStr("default_partition_expiration_ms"), partition_ms>>,
              <<PyStr("replication"), replication>> >>)

RawDatasets ==
    {RawDataset(l, d, lb, te, pe, r) :
        l \in {Absent, PyStr(""), PyStr("EU")},
        d \in {Absent, PyStr(""), PyStr("d")},
        lb \in {Absent, PyNone, PyDict(<<>>), EnvProd,
                PyDict(<< <<PyStr("env"), PyInt(1)>> >>)},
        te \in {Absent, PyInt(0), PyInt(1000)},
        pe \in {Absent, PyInt(0), PyInt(1000)},
        r \in RawReplications \cup {Absent}}

----------------------------------------------------------------------------
(* One config: validate() and the round trip through to_dict / from_dict *)

NoReplication ==
    /\ live = [replicas |-> {}, primary |-> None]
    /\ desired_replicas = <<>>
    /\ desired_primary = None
    /\ Idle

InitConfig ==
    /\ NoReplication
    /\ NoAccess
    /\ NoApplier
    /\ NoShared
    /\ \E name \in Names, data \in RawDatasets : config = from_dict(name, data)
    /\ other = Unset
    /\ errors = Unset
    /\ restored = Unset
    /\ hashes = Unset

\* a call of config.validate()
Validate ==
    /\ errors' = validate(config)
    /\ UNCHANGED <<shared_vars, replication_vars, access_vars, applier_vars, config, other,
                   restored, hashes>>

\* config goes through to_dict and from_dict; both ends are hashed
RoundTrip ==
    /\ restored' = from_dict(config.name, to_dict(config))
    /\ hashes' = [config |-> compute_hash(config),
                  restored |-> compute_hash(restored')]
    /\ UNCHANGED <<shared_vars, replication_vars, access_vars, applier_vars, config, other,
                   errors>>

NextConfig == Validate \/ RoundTrip

SpecConfig == InitConfig /\ [][NextConfig]_vars

----------------------------------------------------------------------------
(* Two configs and their hashes *)

HashedDatasets ==
    {RawDataset(l, d, lb, te, Absent, Absent) :
        l \in {Absent, PyStr("US"), PyStr("EU")},
        d \in {Absent, PyStr(""), PyStr("d")},
        lb \in {Absent, PyDict(<<>>), EnvProd,
                PyDict(<< <<PyStr("env"), PyStr("prod")>>,
                          <<PyStr("tier"), PyStr("critical")>> >>),
                PyDict(<< <<PyStr("tier"), PyStr("critical")>>,
                          <<PyStr("env"), PyStr("prod")>> >>)},
        te \in {Absent, PyInt(0), PyInt(1000)}}

InitHash ==
    /\ NoReplication
    /\ NoAccess
    /\ NoApplier
    /\ NoShared
    /\ \E data \in HashedDatasets : config = from_dict(PyStr("analytics"), data)
    /\ \E name \in Names, data \in HashedDatasets : other = from_dict(name, data)
    /\ errors = Unset
    /\ restored = Unset
    /\ hashes = Unset

\* compute_hash() of both configs
Hash ==
    /\ hashes' = [config |-> compute_hash(config), other |-> compute_hash(other)]
    /\ UNCHANGED <<shared_vars, replication_vars, access_vars, applier_vars, config, other,
                   errors, restored>>

NextHash == Hash

SpecHash == InitHash /\ [][NextHash]_vars

----------------------------------------------------------------------------
(* The manager: construction from a raw mapping, and lookups *)

SchemaNames == {PyStr("analytics"), PyStr("staging"), PyStr("unknown")}

\* raw values under the key "analytics"
RawAnalytics ==
    {RawDataset(l, Absent, lb, Absent, Absent, r) :
        l \in {Absent, PyStr("EU")},
        lb \in {Absent, EnvProd},
        r \in RawReplications \cup {Absent, PyStr("yes")}}
    \cup {PyNone, PyStr("EU"), PyList(<<>>)}

\* raw values under the key "staging"
RawStaging ==
    {PyNone, PyInt(1), PyStr("EU"), PyDict(<<>>),
     RawDataset(PyStr("EU"), Absent, EnvDev, Absent, Absent, Absent)}

RawMappings ==
    {DictOf(<< <<PyStr("analytics"), a>>, <<PyStr("staging"), s>> >>) :
        a \in RawAnalytics \cup {Absent}, s \in RawStaging \cup {Absent}}

InitManager ==
    /\ NoReplication
    /\ NoAccess
    /\ NoConfig
    /\ datasets_config \in RawMappings \cup {PyNone}
    /\ configs = Unset
    /\ dataset = Unset
    /\ schema_name = Unset
    /\ result = NoResult
    /\ NoShared

\* DatasetConfigManager(datasets_config)
Construct ==
    /\ configs = Unset
    /\ configs' = IF DatasetConfigManager(datasets_config) = Raised THEN Raised
                  ELSE DatasetConfigManager(datasets_config).configs
    /\ result' = [op |-> "DatasetConfigManager"]
    /\ UNCHANGED <<shared_vars, replication_vars, access_vars, config_vars, datasets_config,
                   dataset, schema_name>>

Built == configs \notin {Unset, Raised}

\* manager.has_config(name)
HasConfig ==
    /\ Built
    /\ \E name \in SchemaNames :
          /\ schema_name' = name
          /\ result' = [op |-> "has_config", value |-> PyBool(has_config(configs, name))]
    /\ UNCHANGED <<shared_vars, replication_vars, access_vars, config_vars, datasets_config,
                   configs, dataset>>

\* manager.get_config(name)
GetConfig ==
    /\ Built
    /\ \E name \in SchemaNames :
          /\ schema_name' = name
          /\ result' = [op |-> "get_config", value |-> get_config(configs, name)]
    /\ UNCHANGED <<shared_vars, replication_vars, access_vars, config_vars, datasets_config,
                   configs, dataset>>

\* DatasetConfigApplier(manager).get_replication_config(name)
GetReplicationConfig ==
    /\ Built
    /\ \E name \in SchemaNames :
          /\ schema_name' = name
          /\ result' = [op |-> "get_replication_config",
                        value |-> get_replication_config(configs, name)]
    /\ UNCHANGED <<shared_vars, replication_vars, access_vars, config_vars, datasets_config,
                   configs, dataset>>

NextManager == Construct \/ HasConfig \/ GetConfig \/ GetReplicationConfig

SpecManager == InitManager /\ [][NextManager]_vars

----------------------------------------------------------------------------
(* The applier on a live dataset *)

\* a google.cloud.bigquery Dataset: the five attributes the applier knows and
\* one it does not
Dataset(location, description, labels, table_ms, partition_ms) ==
    [t |-> "Dataset", location |-> location, description |-> description,
     labels |-> labels, default_table_expiration_ms |-> table_ms,
     default_partition_expiration_ms |-> partition_ms,
     friendly_name |-> PyStr("f")]

Datasets ==
    {Dataset(l, d, lb, te, pe) :
        l \in {PyNone, PyStr("US"), PyStr("EU")},
        d \in {PyStr("d"), PyStr("old")},
        lb \in {PyNone, PyDict(<<>>), EnvProd, EnvDev},
        te \in {PyInt(1000), PyInt(2000)},
        pe \in {PyNone, PyInt(1000)}}

\* raw mappings the applier's manager is built from
AppliedMappings ==
    {DictOf(<< <<PyStr("analytics"), RawDataset(l, d, lb, te, pe, r)>> >>) :
        l \in {Absent, PyStr(""), PyStr("EU")},
        d \in {Absent, PyStr(""), PyStr("d")},
        lb \in {Absent, PyDict(<<>>), EnvProd},
        te \in {Absent, PyInt(0), PyInt(1000)},
        pe \in {Absent, PyInt(1000)},
        r \in {Absent,
               DictOf(<< <<PyStr("replicas"), PyList(<<PyStr("A")>>)>>,
                         <<PyStr("primary_location"), PyStr("A")>> >>)}}

\* the applier is built with the manager of datasets_config, or with no
\* manager at all when there is no mapping
InitApplier ==
    /\ NoReplication
    /\ NoAccess
    /\ NoConfig
    /\ datasets_config \in AppliedMappings \cup {PyNone}
    /\ configs = DatasetConfigApplier(
                     IF datasets_config = PyNone THEN PyNone
                     ELSE DatasetConfigManager(datasets_config)).config_manager.configs
    /\ dataset \in Datasets
    /\ schema_name = Unset
    /\ result = NoResult
    /\ NoShared

AppliedNames == {PyStr("analytics"), PyStr("unknown")}

\* applier.apply_config_to_dataset(dataset, name); the dataset object is
\* changed in place and returned
Apply ==
    /\ \E name \in AppliedNames :
          /\ schema_name' = name
          /\ dataset' = apply_config_to_dataset(configs, dataset, name)
          /\ result' = [op |-> "apply_config_to_dataset", value |-> dataset']
    /\ UNCHANGED <<shared_vars, replication_vars, access_vars, config_vars, datasets_config,
                   configs>>

\* applier.should_update_dataset(dataset, name)
ShouldUpdate ==
    /\ \E name \in AppliedNames :
          /\ schema_name' = name
          /\ result' = [op |-> "should_update_dataset",
                        value |-> PyBool(should_update_dataset(configs, dataset, name))]
    /\ UNCHANGED <<shared_vars, replication_vars, access_vars, config_vars, datasets_config,
                   configs, dataset>>

\* applier.get_replication_config(name)
ReplicationOf ==
    /\ \E name \in AppliedNames :
          /\ schema_name' = name
          /\ result' = [op |-> "get_replication_config",
                        value |-> get_replication_config(configs, name)]
    /\ UNCHANGED <<shared_vars, replication_vars, access_vars, config_vars, datasets_config,
                   configs, dataset>>

NextApplier == Apply \/ ShouldUpdate \/ ReplicationOf

SpecApplier == InitApplier /\ [][NextApplier]_vars

----------------------------------------------------------------------------
(* Two configs of one name before the same applier calls *)

ComparedName == PyStr("analytics")

ComparedReplications ==
    {Absent,
     DictOf(<< <<PyStr("enabled"), PyBool(FALSE)>>,
               <<PyStr("replicas"), PyList(<<PyStr("A")>>)>>,
               <<PyStr("primary_location"), PyStr("A")>> >>),
     DictOf(<< <<PyStr("replicas"), PyList(<<PyStr("A")>>)>>,
               <<PyStr("primary_location"), PyStr("A")>> >>)}

ComparedConfigs ==
    {from_dict(ComparedName, RawDataset(l, d, lb, te, Absent, r)) :
        l \in {Absent, PyStr("EU")},
        d \in {Absent, PyStr(""), PyStr("d")},
        lb \in {Absent, EnvProd},
        te \in {Absent, PyInt(0), PyInt(1000)},
        r \in ComparedReplications}

ComparedDatasets ==
    {Dataset(PyNone, PyStr("old"), PyNone, PyInt(2000), PyNone),
     Dataset(PyStr("EU"), PyStr("d"), EnvProd, PyInt(1000), PyNone)}

\* the registry of a manager that holds the one config c
Registry(c) == SetItem(PyDict(<<>>), c.name, c)

InitSound ==
    /\ NoReplication
    /\ NoAccess
    /\ config \in ComparedConfigs
    /\ other \in ComparedConfigs
    /\ errors = Unset
    /\ restored = Unset
    /\ hashes = Unset
    /\ datasets_config = Unset
    /\ configs = Unset
    /\ dataset \in ComparedDatasets
    /\ schema_name = ComparedName
    /\ result = NoResult
    /\ NoShared

\* apply_config_to_dataset on a copy of the dataset, by an applier holding
\* `config` and by one holding `other`
ApplyBoth ==
    /\ result' = [op |-> "apply_config_to_dataset",
                  value |-> apply_config_to_dataset(Registry(config), dataset, schema_name),
                  other |-> apply_config_to_dataset(Registry(other), dataset, schema_name)]
    /\ UNCHANGED <<shared_vars, replication_vars, access_vars, config_vars, datasets_config,
                   configs, dataset, schema_name>>

\* should_update_dataset by both appliers
ShouldUpdateBoth ==
    /\ result' = [op |-> "should_update_dataset",
                  value |-> PyBool(should_update_dataset(Registry(config), dataset, schema_name)),
                  other |-> PyBool(should_update_dataset(Registry(other), dataset, schema_name))]
    /\ UNCHANGED <<shared_vars, replication_vars, access_vars, config_vars, datasets_config,
                   configs, dataset, schema_name>>

\* get_replication_config by both appliers
ReplicationOfBoth ==
    /\ result' = [op |-> "get_replication_config",
                  value |-> get_replication_config(Registry(config), schema_name),
                  other |-> get_replication_config(Registry(other), schema_name)]
    /\ UNCHANGED <<shared_vars, replication_vars, access_vars, config_vars, datasets_config,
                   configs, dataset, schema_name>>

NextSound == ApplyBoth \/ ShouldUpdateBoth \/ ReplicationOfBoth

SpecSound == InitSound /\ [][NextSound]_vars

----------------------------------------------------------------------------
(* Objects held by reference: the stored configs and what callers are handed *)

\* a reference to the object with identity `id`
Ref(id) == [t |-> "ref", id |-> id]

SharedNames == {PyStr("analytics"), PyStr("staging")}

\* identities of the config object stored under `name`, of its labels dict
\* and of the replicas list of its policy
ConfigOf(name) == <<name.s, "config">>

LabelsOf(name) == <<name.s, "labels">>

ReplicasOf(name) == <<name.s, "replicas">>

\* the labels dict the live dataset came with
OwnLabels == <<"dataset", "labels">>

Identities ==
    {ConfigOf(n) : n \in SharedNames} \cup {LabelsOf(n) : n \in SharedNames}
    \cup {ReplicasOf(n) : n \in SharedNames} \cup {OwnLabels}

\* the value reached from x, every reference followed
RECURSIVE Deref(_, _)
Deref(h, x) ==
    CASE x.t = "ref" -> Deref(h, h[x.id])
      [] x.t = "dict" ->
            PyDict([i \in DOMAIN x.items |-> <<x.items[i][1], Deref(h, x.items[i][2])>>])
      [] x.t = "BigQueryDatasetConfig" ->
            [x EXCEPT !.labels = Deref(h, @), !.replication = Deref(h, @)]
      [] x.t = "BigQueryReplicationConfig" -> [x EXCEPT !.replicas = Deref(h, @)]
      [] x.t = "Dataset" -> [x EXCEPT !.labels = Deref(h, @)]
      [] OTHER -> x

\* the config object of `name` as from_dict leaves it: its labels dict and
\* the replicas list of its policy are objects of their own
ConfigObject(c) ==
    [c EXCEPT !.labels = Ref(LabelsOf(c.name)),
              !.replication = IF @ = PyNone THEN PyNone
                              ELSE [@ EXCEPT !.replicas = Ref(ReplicasOf(c.name))]]

\* the objects after DatasetConfigManager(raw) built the registry `stored`
Loaded(stored) ==
    [id \in Identities |->
        LET name == PyStr(id[1])
            c    == get_config(stored, name)
        IN  IF id = OwnLabels THEN EnvDev
            ELSE IF c = PyNone THEN PyNone
            ELSE IF id[2] = "config" THEN ConfigObject(c)
            ELSE IF id[2] = "labels" THEN c.labels
            ELSE IF c.replication = PyNone THEN PyNone
            ELSE c.replication.replicas]

\* self.configs: each name bound to its config object
References(stored) ==
    PyDict([i \in DOMAIN stored.items |->
               <<stored.items[i][1], Ref(ConfigOf(stored.items[i][1]))>>])

SharedReplication ==
    DictOf(<< <<PyStr("replicas"), PyList(<<PyStr("A")>>)>>,
              <<PyStr("primary_location"), PyStr("A")>> >>)

SharedMappings ==
    {DictOf(<< <<PyStr("analytics"),
                 RawDataset(PyStr("EU"), Absent, lb, Absent, Absent, SharedReplication)>>,
               <<PyStr("staging"), s>> >>) :
        lb \in {Absent, EnvProd},
        s \in {Absent, RawDataset(Absent, Absent, EnvProd, Absent, Absent, Absent)}}

\* the registry as DatasetConfigManager(datasets_config) built it
AsBuilt == DatasetConfigManager(datasets_config).configs

\* the registry as it is now
AsStored == Deref(heap, configs)

InitShared ==
    /\ NoReplication
    /\ NoAccess
    /\ NoConfig
    /\ datasets_config \in SharedMappings
    /\ configs = References(AsBuilt)
    /\ heap = Loaded(AsBuilt)
    /\ dataset = Dataset(PyStr("US"), PyStr("d"), Ref(OwnLabels), PyInt(1000), PyNone)
    /\ second = Unset
    /\ all_configs = Unset
    /\ schema_name = Unset
    /\ result = NoResult

\* lines 21-63 on objects: line 53 binds dataset.labels to the very dict the
\* config holds
ApplyByReference(ds, name) ==
    LET c       == get_config(AsStored, name)
        applied == apply_config_to_dataset(AsStored, Deref(heap, ds), name)
    IN  [applied EXCEPT !.labels = IF bool(c) /\ bool(c.labels)
                                   THEN heap[ConfigOf(name)].labels
                                   ELSE ds.labels]

\* applier.apply_config_to_dataset(dataset, name)
ApplyToDataset ==
    /\ \E name \in SharedNames :
          /\ schema_name' = name
          /\ dataset' = ApplyByReference(dataset, name)
          /\ result' = [op |-> "apply_config_to_dataset", value |-> dataset']
    /\ UNCHANGED <<replication_vars, access_vars, config_vars, datasets_config,
                   configs, heap, all_configs, second>>

\* lines 65-84: applier.create_dataset_with_config(project, dataset_id, name)
CreateDatasetWithConfig ==
    /\ \E name \in SharedNames :
          /\ schema_name' = name
          /\ second' = ApplyByReference(Dataset(PyNone, PyNone, PyNone, PyNone, PyNone),
                                        name)
          /\ result' = [op |-> "create_dataset_with_config", value |-> second']
    /\ UNCHANGED <<replication_vars, access_vars, config_vars, datasets_config,
                   configs, heap, all_configs, dataset>>

\* applier.should_update_dataset(dataset, name)
ShouldUpdateDataset ==
    /\ \E name \in SharedNames :
          /\ schema_name' = name
          /\ result' = [op |-> "should_update_dataset",
                        value |-> PyBool(should_update_dataset(AsStored,
                                                               Deref(heap, dataset), name))]
    /\ UNCHANGED <<replication_vars, access_vars, config_vars, datasets_config,
                   configs, heap, all_configs, dataset, second>>

\* applier.get_replication_config(name): lines 17-23 put the policy's replicas
\* list itself into the mapping returned
GetReplicationMapping ==
    /\ \E name \in SharedNames :
          /\ schema_name' = name
          /\ result' = [op |-> "get_replication_config",
                        value |-> IF get_replication_config(AsStored, name) = PyNone
                                  THEN PyNone
                                  ELSE Replication_to_dict(heap[ConfigOf(name)].replication)]
    /\ UNCHANGED <<replication_vars, access_vars, config_vars, datasets_config,
                   configs, heap, all_configs, dataset, second>>

NewLabel == PyStr("owner")

\* the caller adds a label to a dataset it was handed back
AddLabel ==
    /\ \E ds \in {dataset, second} \ {Unset} :
          /\ ds.labels # PyNone
          /\ NewLabel \notin Keys(heap[ds.labels.id])
          /\ heap' = [heap EXCEPT ![ds.labels.id] = SetItem(@, NewLabel, PyStr("me"))]
    /\ UNCHANGED <<replication_vars, access_vars, config_vars, applier_vars,
                   all_configs, second>>

NewReplica == PyStr("C")

\* the caller appends to the replicas list of the mapping it was handed
AppendReplica ==
    /\ result.op = "get_replication_config"
    /\ result.value # PyNone
    /\ LET replicas == Get(result.value, PyStr("replicas"), PyNone)
       IN  /\ NewReplica \notin ToSet(heap[replicas.id].xs)
           /\ heap' = [heap EXCEPT ![replicas.id] = PyList(Append(@.xs, NewReplica))]
    /\ UNCHANGED <<replication_vars, access_vars, config_vars, applier_vars,
                   all_configs, second>>

\* lines 174-176: manager.get_all_configs(), a new dict of the same config objects
GetAllConfigs ==
    /\ all_configs' = configs
    /\ result' = [op |-> "get_all_configs"]
    /\ UNCHANGED <<replication_vars, access_vars, config_vars, datasets_config,
                   configs, dataset, schema_name, heap, second>>

NewKey == PyStr("extra")

\* the caller adds a key to the mapping it was handed
AddKey ==
    /\ all_configs # Unset
    /\ NewKey \notin Keys(all_configs)
    /\ all_configs' = SetItem(all_configs, NewKey, PyNone)
    /\ UNCHANGED <<replication_vars, access_vars, config_vars, applier_vars, heap,
                   second>>

\* the caller deletes a key of the mapping it was handed
RemoveKey ==
    /\ all_configs # Unset
    /\ \E key \in Keys(all_configs) :
          all_configs' = PyDict(SelectSeq(all_configs.items, LAMBDA p : p[1] # key))
    /\ UNCHANGED <<replication_vars, access_vars, config_vars, applier_vars, heap,
                   second>>

\* the caller changes a field of a config object it reaches through the mapping
SetField ==
    /\ all_configs # Unset
    /\ \E key \in Keys(all_configs) \ {NewKey} :
          LET c == Get(all_configs, key, PyNone)
          IN  /\ heap[c.id].location # PyStr("")
              /\ heap' = [heap EXCEPT ![c.id].location = PyStr("")]
    /\ UNCHANGED <<replication_vars, access_vars, config_vars, applier_vars,
                   all_configs, second>>

\* lines 168-172: the loop of validate_all over the pairs `items`
RECURSIVE extend_all(_, _)
extend_all(items, all_errors) ==
    IF items = <<>> THEN all_errors
    ELSE LET errs == validate(Head(items)[2])
         IN  IF errs = Raised THEN Raised
             ELSE extend_all(Tail(items), PyList(all_errors.xs \o errs.xs))

\* lines 166-172: DatasetConfigManager.validate_all
validate_all(stored) == extend_all(stored.items, PyList(<<>>))

\* manager.validate_all()
ValidateAll ==
    /\ result' = [op |-> "validate_all", value |-> validate_all(AsStored)]
    /\ UNCHANGED <<replication_vars, access_vars, config_vars, datasets_config,
                   configs, dataset, schema_name, shared_vars>>

NextShared ==
    \/ ApplyToDataset
    \/ CreateDatasetWithConfig
    \/ ShouldUpdateDataset
    \/ GetReplicationMapping
    \/ AddLabel
    \/ AppendReplica
    \/ GetAllConfigs
    \/ AddKey
    \/ RemoveKey
    \/ SetField
    \/ ValidateAll

SpecShared == InitShared /\ [][NextShared]_vars

----------------------------------------------------------------------------
(* Properties of the replication run *)

Ops(cs) == {<<cs[i].op, cs[i].region>> : i \in DOMAIN cs}

Count(cs, op, r) == Cardinality({i \in DOMAIN cs : cs[i].op = op /\ cs[i].region = r})

Failed(cs) == {i \in DOMAIN cs : ~Succeeded(cs[i].outcome)}

\* the operations a run owes for what it observed
Planned(cur) ==
    {<<"ADD", r>> : r \in ToSet(desired_replicas) \ ToSet(cur.replicas)}
    \cup {<<"DROP", r>> : r \in ToSet(cur.replicas) \ ToSet(desired_replicas)}
    \cup (IF /\ desired_primary # None
             /\ desired_primary \in ToSet(desired_replicas)
             /\ cur.primary # desired_primary
          THEN {<<"SET", desired_primary>>} ELSE {})

\* C1: when a run returned with every mutating call it made successful
\* and nothing else touched the warehouse, the run that follows it with the same
\* desired arguments issues no ADD REPLICA, no DROP REPLICA and no SET.
C1_SecondRunIssuesNothing ==
    \A p \in Procs : (prev[p].ran /\ prev[p].allok) => calls[p] = <<>>

C1_Witness ==
    /\ prev[1].ran /\ prev[1].allok /\ prev[1].ncalls >= 2
    /\ pc[1] = "done" /\ lastq[1] = "rows" /\ calls[1] = <<>>

\* C2: a run that returned issued exactly the planned operations, one ADD per
\* region of desired minus observed, one DROP per region of observed minus
\* desired, one SET when the desired primary is set, is a desired replica and
\* differs from the observed primary; nothing else and nothing twice.
C2_ExactOperations ==
    \A p \in Procs :
        pc[p] = "done" =>
            /\ Ops(calls[p]) = Planned(current[p])
            /\ \A i, j \in DOMAIN calls[p] :
                 (calls[p][i].op = calls[p][j].op
                    /\ calls[p][i].region = calls[p][j].region) => i = j

\* C3: inside one run no ADD and no DROP is issued after a SET.
C3_SetPrimaryLast ==
    \A p \in Procs : \A i, j \in DOMAIN calls[p] :
        (i < j /\ calls[p][i].op = "SET") => calls[p][j].op = "SET"

\* C5: when a mutating call of a run failed, the run still returned to the
\* caller and every planned operation was attempted exactly once (no operation
\* skipped, none retried).
C5_FailureIsolation ==
    \A p \in Procs :
        (pc[p] \in {"done", "raised"} /\ Failed(calls[p]) # {}) =>
            /\ pc[p] = "done"
            /\ \A o \in Planned(current[p]) : Count(calls[p], o[1], o[2]) = 1

\* C6 as claimed: no run ever raises, whatever the outcome of its calls.
C6_NeverRaises == \A p \in Procs : pc[p] # "raised"

\* warehouse calls a run in progress can still make, at most
Measure(p) ==
    3 * Cardinality(remove_left[p]) + Cardinality(add_left[p])
    + (IF pc[p] = "set" THEN 2 ELSE IF pc[p] = "again" THEN 1 ELSE 0)

\* C6, amended: every run ends (a run in progress can always make its next call,
\* and each call brings it strictly closer to its end); it raises only when its
\* metadata query failed with something other than not-found / bad-request, and
\* then before any mutating call; no outcome of a mutating call makes it raise.
C6_CompletesUnlessQueryFails ==
    /\ [](\A p \in Procs :
            pc[p] = "raised" => (lastq[p] = "other" /\ calls[p] = <<>>))
    /\ [](\A p \in Procs : ~Finished(p) => ENABLED Step(p))
    /\ [][\A p \in Procs :
            (~Finished(p) /\ <<pc[p], add_left[p], remove_left[p], sql[p], calls[p]>>'
                                # <<pc[p], add_left[p], remove_left[p], sql[p], calls[p]>>)
                => Measure(p)' < Measure(p)]_vars

C6_Witness ==
    /\ pc[1] = "done"
    /\ lastq[1] = "bad_request"
    /\ Len(calls[1]) >= 2
    /\ \A i \in DOMAIN calls[1] : calls[1][i].outcome = "fail"

Converged ==
    /\ live.replicas = ToSet(desired_replicas)
    /\ desired_primary # None => live.primary = desired_primary

\* C7: with a desired primary that is unset or one of the desired replicas,
\* re-running the reconciliation brings the live replica set and primary to the
\* desired ones.  A run that made no mutating call left the warehouse as it
\* found it, and every later run, observing the same state, does the same; so
\* convergence requires that a run ends without a mutating call only when the
\* live state is the desired one.
C7_QuietRunMeansConverged ==
    \A p \in Procs :
        (/\ desired_primary = None \/ desired_primary \in ToSet(desired_replicas)
         /\ pc[p] = "done"
         /\ calls[p] = <<>>)
        => Converged

RegionsOf(cs, op) == {cs[i].region : i \in {j \in DOMAIN cs : cs[j].op = op}}

\* C8: a metadata query that fails with not-found or bad-request does not raise
\* and yields the empty observed state, so the run plans an ADD for every
\* desired region (and issues each before it returns) and no DROP; a metadata
\* query that fails otherwise raises to the caller with no mutating call made.
C8_ObserveErrorHandling ==
    \A p \in Procs :
        /\ lastq[p] \in {"not_found", "bad_request"} =>
              /\ pc[p] # "raised"
              /\ current[p] = EmptyConfig
              /\ to_add[p] = ToSet(desired_replicas)
              /\ to_remove[p] = {}
              /\ pc[p] = "done" => RegionsOf(calls[p], "ADD") = ToSet(desired_replicas)
        /\ lastq[p] = "other" => (pc[p] = "raised" /\ calls[p] = <<>>)

C8_Witness ==
    /\ lastq[1] = "not_found"
    /\ pc[1] = "done"
    /\ Len(desired_replicas) = 2
    /\ RegionsOf(calls[1], "ADD") = ToSet(desired_replicas)
    /\ live.replicas = ToSet(desired_replicas)

\* C9: with a desired primary that is not one of the desired replicas, a run
\* issues no SET, is not made to raise by it (it raises only on the metadata
\* query's own failure), and by the time it returns has issued the ADD of every
\* region of desired minus observed and the DROP of every region of observed
\* minus desired.
C9_InconsistentPrimarySkipped ==
    \A p \in Procs :
        (desired_primary # None /\ desired_primary \notin ToSet(desired_replicas)) =>
            /\ RegionsOf(calls[p], "SET") = {}
            /\ pc[p] = "raised" => lastq[p] = "other"
            /\ pc[p] = "done" =>
                  /\ RegionsOf(calls[p], "ADD")
                       = ToSet(desired_replicas) \ ToSet(current[p].replicas)
                  /\ RegionsOf(calls[p], "DROP")
                       = ToSet(current[p].replicas) \ ToSet(desired_replicas)

C9_Witness ==
    /\ desired_primary # None
    /\ desired_primary \notin ToSet(desired_replicas)
    /\ current[1].primary # desired_primary
    /\ pc[1] = "done"
    /\ RegionsOf(calls[1], "ADD") # {}
    /\ RegionsOf(calls[1], "DROP") # {}
    /\ \E i \in DOMAIN calls[1] : calls[1][i].op = "DROP" /\ calls[1][i].outcome = "ok"

Occurs(r, s) == \E i \in DOMAIN s : s[i] = r

\* C4: needs_replication_update is true exactly when some region occurs in one
\* of the two replica lists and not in the other (whatever the order and the
\* repetitions of the lists), or the desired primary is set and the observed
\* primary is not it.
C4_DecideIsSetComparison ==
    \A p \in Procs :
        pc[p] = "decided" =>
            (needs[p] = "True") =
                (\/ \E r \in Regions :
                       Occurs(r, current[p].replicas) # Occurs(r, desired_replicas)
                 \/ (desired_primary # None
                       /\ current[p].primary # desired_primary))

C4_Witness ==
    /\ pc[1] = "decided"
    /\ needs[1] = "False"
    /\ desired_primary = None
    /\ current[1].primary # None
    /\ Len(current[1].replicas) = 3
    /\ Len(desired_replicas) = 2
    /\ current[1].replicas[1] = desired_replicas[2]

\* C10 as claimed: the check answers true exactly when some live entry has the
\* candidate's role and entity type and holds every property of the candidate
\* (candidate properties within live properties).
C10_CandidateWithinLive ==
    present # "none" =>
        (present = "True") =
            \E i \in DOMAIN access_entries :
                /\ access_entries[i].role = access_entry.role
                /\ access_entries[i].entity_type = access_entry.entity_type
                /\ \A x \in access_entry.properties :
                       x \in access_entries[i].properties

\* C10, amended: the check answers true exactly when some live entry has the
\* candidate's role and entity type and every property of that live entry is a
\* property of the candidate (live properties within candidate properties).
C10_LiveWithinCandidate ==
    present # "none" =>
        (present = "True") =
            \E i \in DOMAIN access_entries :
                /\ access_entries[i].role = access_entry.role
                /\ access_entries[i].entity_type = access_entry.entity_type
                /\ \A x \in access_entries[i].properties :
                       x \in access_entry.properties

C10_Witness ==
    /\ present = "True"
    /\ Len(access_entries) = 2
    /\ access_entries[1].role # access_entry.role
    /\ access_entries[2].role = access_entry.role
    /\ access_entries[2].entity_type = access_entry.entity_type
    /\ access_entries[2].properties # access_entry.properties
    /\ access_entries[2].properties # {}

----------------------------------------------------------------------------
(* Properties of the applier *)

\* the stored config the last call looked up
Looked == get_config(configs, schema_name)

\* C11: a call of apply_config_to_dataset for a schema with a stored config
\* sets each of location, description, labels, default_table_expiration_ms and
\* default_partition_expiration_ms to the config value when that value is
\* truthy and leaves the live attribute as it was otherwise; no attribute that
\* had a value loses it and no other attribute of the dataset changes.
C11_SetIfSpecified ==
    [][(result'.op = "apply_config_to_dataset" /\ has_config(configs, schema_name'))
       => LET c == get_config(configs, schema_name')
          IN  /\ \A a \in Applied :
                    dataset'[a] = IF bool(c[a]) THEN c[a] ELSE dataset[a]
              /\ \A a \in Applied : bool(dataset[a]) => bool(dataset'[a])
              /\ DOMAIN dataset' = DOMAIN dataset
              /\ \A a \in DOMAIN dataset \ Applied : dataset'[a] = dataset[a]
              /\ result'.value = dataset']_vars

\* an apply that overwrote the location and kept the description, the config
\* giving an empty description
C11_Witness ==
    /\ result.op = "apply_config_to_dataset"
    /\ has_config(configs, schema_name)
    /\ Looked.description = PyStr("")
    /\ dataset.description = PyStr("old")
    /\ Looked.location = PyStr("EU")
    /\ dataset.location = PyStr("EU")
    /\ Looked.labels = PyDict(<<>>)
    /\ dataset.labels = EnvDev

\* the live value should_update_dataset compares with: no labels is {}
LiveValue(a) ==
    IF a = "labels" /\ dataset.labels = PyNone THEN PyDict(<<>>) ELSE dataset[a]

\* C12: should_update_dataset returns true exactly when some attribute among
\* the five has a truthy config value that differs from the live value, live
\* labels of None counting as {}; an attribute the config leaves unspecified
\* never makes it true.
C12_DriftDetection ==
    (result.op = "should_update_dataset" /\ has_config(configs, schema_name))
    => (result.value.b
        <=> \E a \in Applied : bool(Looked[a]) /\ ~PyEq(LiveValue(a), Looked[a]))

\* a false answer although the live description differs from the unspecified one
C12_Witness ==
    /\ result.op = "should_update_dataset"
    /\ has_config(configs, schema_name)
    /\ ~result.value.b
    /\ ~bool(Looked.description)
    /\ dataset.description = PyStr("old")
    /\ Looked.labels = EnvProd
    /\ dataset.labels = EnvProd

\* C13: for a schema name without a stored config, apply_config_to_dataset
\* returns the dataset with every attribute as it was, should_update_dataset
\* returns False and get_replication_config returns None; no call raises.
C13_UnknownSchemaNoOp ==
    [][(~has_config(configs, schema_name'))
       => /\ dataset' = dataset
          /\ result' # Raised
          /\ result'.op = "apply_config_to_dataset" => result'.value = dataset
          /\ result'.op = "should_update_dataset" => result'.value = PyBool(FALSE)
          /\ result'.op = "get_replication_config" => result'.value = PyNone]_vars

\* an applier built without a manager was asked to apply to a dataset that has values
C13_Witness ==
    /\ datasets_config = PyNone
    /\ configs = PyDict(<<>>)
    /\ result.op = "apply_config_to_dataset"
    /\ schema_name = PyStr("analytics")
    /\ dataset.location = PyStr("US")
    /\ dataset.labels = EnvProd

\* C14: get_replication_config returns the mapping of the stored policy's
\* enabled, replicas and primary_location exactly when the schema has a stored
\* config with a replication policy that is enabled, and None otherwise, in
\* particular for a disabled policy whatever it lists.
C14_ReplicationHook ==
    result.op = "get_replication_config"
    => IF /\ has_config(configs, schema_name)
          /\ Looked.replication # PyNone
          /\ Looked.replication.enabled = PyBool(TRUE)
       THEN /\ isinstance(result.value, "dict")
            /\ Keys(result.value) = {PyStr("enabled"), PyStr("replicas"),
                                     PyStr("primary_location")}
            /\ \A k \in Keys(result.value) :
                  Get(result.value, k, Absent) = Looked.replication[k.s]
       ELSE result.value = PyNone

\* None was returned for a disabled policy that lists replicas and a primary
C14_Witness ==
    /\ result.op = "get_replication_config"
    /\ has_config(configs, schema_name)
    /\ Looked.replication # PyNone
    /\ Looked.replication.enabled = PyBool(FALSE)
    /\ bool(Looked.replication.replicas)
    /\ bool(Looked.replication.primary_location)
    /\ result.value = PyNone

----------------------------------------------------------------------------
(* Properties of one config *)

Enabled(c) == c.replication # PyNone /\ bool(c.replication.enabled)

Said(text) == \E i \in DOMAIN errors.xs : errors.xs[i].text = text

OneIf(b) == IF b THEN 1 ELSE 0

\* how many of the rules of validate() the config breaks
Broken(c) ==
    OneIf(c.name = PyStr(""))
    + OneIf(c.location = PyStr(""))
    + OneIf(Enabled(c) /\ ~bool(c.replication.replicas))
    + OneIf(Enabled(c) /\ ~bool(c.replication.primary_location))
    + (IF Enabled(c) /\ isinstance(c.replication.replicas, "list")
       THEN Len(SelectSeq(c.replication.replicas.xs,
                          LAMBDA r : ~isinstance(r, "str") \/ r = PyStr("")))
       ELSE 0)
    + (IF isinstance(c.labels, "dict")
       THEN Len(SelectSeq(c.labels.items,
                          LAMBDA p : ~isinstance(p[1], "str")
                                     \/ ~isinstance(p[2], "str")))
       ELSE 0)

\* C15: validate() on a config built by from_dict returns a list and does not
\* raise; the list has a message for every rule the config breaks, at least as
\* many messages as broken rules, and is empty when no rule is broken.
C15_ValidateCollectsNeverRaises ==
    errors # Unset
    => /\ errors # Raised
       /\ isinstance(errors, "list")
       /\ Len(errors.xs) >= Broken(config)
       /\ Broken(config) = 0 => errors.xs = <<>>
       /\ config.name = PyStr("") => Said("Dataset name is required")
       /\ config.location = PyStr("") => Said("Dataset location is required")
       /\ (Enabled(config) /\ ~bool(config.replication.replicas))
          => Said("replication enabled but no replicas specified")
       /\ (Enabled(config) /\ ~bool(config.replication.primary_location))
          => Said("replication enabled but no primary_location specified")

\* C16: validate() returns a non-empty list for every config whose replication
\* policy names a primary that is not one of its replicas.
C16_PrimaryOutsideReplicasRejected ==
    (/\ errors # Unset
     /\ errors # Raised
     /\ config.replication # PyNone
     /\ config.replication.primary_location # PyNone
     /\ isinstance(config.replication.replicas, "list")
     /\ config.replication.primary_location \notin ToSet(config.replication.replicas.xs))
    => errors.xs # <<>>

\* field-for-field equality of two replication policies (or None)
ReplicationEq(r1, r2) ==
    IF r1 = PyNone \/ r2 = PyNone THEN r1 = r2
    ELSE /\ PyEq(r1.enabled, r2.enabled)
         /\ PyEq(r1.replicas, r2.replicas)
         /\ PyEq(r1.primary_location, r2.primary_location)

\* field-for-field equality of two configs, the == of the dataclass
ConfigEq(c1, c2) ==
    /\ PyEq(c1.name, c2.name)
    /\ PyEq(c1.location, c2.location)
    /\ ReplicationEq(c1.replication, c2.replication)
    /\ PyEq(c1.labels, c2.labels)
    /\ PyEq(c1.description, c2.description)
    /\ PyEq(c1.default_table_expiration_ms, c2.default_table_expiration_ms)
    /\ PyEq(c1.default_partition_expiration_ms, c2.default_partition_expiration_ms)

\* C17: a config that validates without errors comes back from
\* from_dict(c.name, c.to_dict()) equal field for field, with the same hash.
C17_RoundTrip ==
    (restored # Unset /\ validate(config) = PyList(<<>>))
    => /\ ConfigEq(restored, config)
       /\ hashes.restored = hashes.config

----------------------------------------------------------------------------
(* Properties of the hash *)

\* C18: two configs that are equal field for field have the same
\* compute_hash(), however their labels were inserted and whichever raw
\* mapping they were built from; two configs with equal to_dict() have the
\* same compute_hash().
C18_HashDeterminism ==
    hashes # Unset
    => /\ ConfigEq(config, other) => hashes.config = hashes.other
       /\ PyEq(to_dict(config), to_dict(other)) => hashes.config = hashes.other

\* equal configs whose labels were inserted in different orders were hashed
C18_Witness ==
    /\ hashes # Unset
    /\ ConfigEq(config, other)
    /\ Len(config.labels.items) = 2
    /\ config.labels.items # other.labels.items

\* the two configs differ in location and in nothing else
DifferOnlyInLocation(c1, c2) ==
    /\ ~PyEq(c1.location, c2.location)
    /\ ConfigEq([c1 EXCEPT !.location = c2.location], c2)

\* C19: two configs that differ only in location have different
\* compute_hash() values.
C19_HashSeesLocation ==
    (hashes # Unset /\ DifferOnlyInLocation(config, other))
    => hashes.config # hashes.other

\* a config with the default location and one with EU, otherwise equal, were hashed
C19_Witness ==
    /\ hashes # Unset
    /\ DifferOnlyInLocation(config, other)
    /\ config.location = PyStr("US")
    /\ other.location = PyStr("EU")
    /\ bool(config.labels)

----------------------------------------------------------------------------
(* Properties of the manager *)

\* the raw value under `name`, Absent when the mapping has no such key
RawValue(name) ==
    IF datasets_config = PyNone THEN Absent ELSE Get(datasets_config, name, Absent)

\* C20: once the manager is built, has_config(name) holds exactly for the
\* names whose raw value is a mapping; get_config(name) is then a config named
\* `name` with the fields of that raw value, and None for every other name;
\* construction raises for no raw mapping whose mapping values are well formed,
\* whatever non-mapping values it holds besides.
C20_RegistryContents ==
    /\ Built =>
         \A name \in SchemaNames :
            /\ has_config(configs, name) <=> isinstance(RawValue(name), "dict")
            /\ IF isinstance(RawValue(name), "dict")
               THEN /\ get_config(configs, name).name = name
                    /\ get_config(configs, name).location
                         = Get(RawValue(name), PyStr("location"), PyStr("US"))
                    /\ get_config(configs, name).labels
                         = Get(RawValue(name), PyStr("labels"), PyDict(<<>>))
                    /\ get_config(configs, name) = from_dict(name, RawValue(name))
               ELSE get_config(configs, name) = PyNone
    /\ (Built /\ result.op = "has_config")
         => result.value.b = isinstance(RawValue(schema_name), "dict")
    /\ (Built /\ result.op = "get_config" /\ ~isinstance(RawValue(schema_name), "dict"))
         => result.value = PyNone
    /\ configs = Raised
         => \E name \in SchemaNames :
               /\ isinstance(RawValue(name), "dict")
               /\ from_dict(name, RawValue(name)) = Raised

\* a non-mapping value came first and the mapping after it was still stored
C20_Witness ==
    /\ Built
    /\ RawValue(PyStr("analytics")) = PyStr("EU")
    /\ has_config(configs, PyStr("staging"))
    /\ result.op = "get_config"
    /\ schema_name = PyStr("analytics")
    /\ result.value = PyNone

----------------------------------------------------------------------------
(* Further properties of the replication run *)

\* the desired primary is unset or one of the desired replicas
ConsistentPrimary ==
    desired_primary = None \/ desired_primary \in ToSet(desired_replicas)

\* C23: after one run in which the metadata query and every mutating call
\* succeeded, with a desired primary that is unset or a desired replica, the
\* live replica set is the desired one and the live primary is the desired
\* primary (when one is desired), whatever state the run started from.
C23_SingleRunPostcondition ==
    \A p \in Procs :
        (/\ ConsistentPrimary
         /\ pc[p] = "done"
         /\ lastq[p] = "rows"
         /\ AllOk(calls[p]))
        => Converged

\* C30: with a desired primary that is set and is not a desired replica, and a
\* live primary that is one of the live replicas, needs_replication_update is
\* true in every run, so no run takes the already-configured branch; and a run
\* that observed the desired replica set issues no mutating call.
C30_InconsistentPrimaryNeverSettles ==
    \A p \in Procs :
        (/\ desired_primary # None
         /\ desired_primary \notin ToSet(desired_replicas)
         /\ needs[p] # "none")
        => /\ needs[p] = "True"
           /\ ToSet(current[p].replicas) = ToSet(desired_replicas)
                => calls[p] = <<>>

\* a second run in a row decided true and issued nothing, the replica sets agreeing
C30_Witness ==
    /\ desired_primary # None
    /\ desired_primary \notin ToSet(desired_replicas)
    /\ runs[1] = 2
    /\ prev[1].ran
    /\ prev[1].ncalls = 0
    /\ pc[1] = "done"
    /\ needs[1] = "True"
    /\ calls[1] = <<>>
    /\ live.replicas = ToSet(desired_replicas)
    /\ live.primary \in live.replicas

----------------------------------------------------------------------------
(* Two interleaved invocations against one dataset *)

Last(cs) == cs[Len(cs)]

\* The warehouse refuses a statement only when it is redundant: an ADD of a
\* region that is a replica reports "already exists", a DROP of a region that
\* is no replica fails, and the metadata query answers.
Cooperative(p) ==
    /\ lastq'[p] # "other"
    /\ (calls'[p] # calls[p] /\ calls'[p] # <<>>) =>
          LET c == Last(calls'[p])
              ok == "ok" \in DdlOutcomes(live, [op |-> c.op, region |-> c.region])
          IN c.outcome = (IF ok THEN "ok" ELSE IF c.op = "ADD" THEN "exists" ELSE "fail")

\* one invocation per slot
Interleaved(p) ==
    /\ Step(p)
    /\ runs'[p] <= 1
    /\ Cooperative(p)

NextConcurrent == Interleaved(1) \/ Interleaved(2)

SpecConcurrent == Init /\ [][NextConcurrent]_vars

\* C24: when two invocations for the same dataset and the same desired state
\* (desired primary among the desired replicas) interleave call by call, and the
\* warehouse refuses only redundant statements, both end without raising and
\* the live state they leave is the desired one.
C24_ConcurrentRunsConverge ==
    (/\ desired_primary # None
     /\ desired_primary \in ToSet(desired_replicas)
     /\ \A p \in Procs : runs[p] = 1 /\ Finished(p))
    => /\ \A p \in Procs : pc[p] = "done"
       /\ Converged

\* two invocations that overlapped, one of them meeting a redundant ADD and
\* a redundant DROP
C24_Overlap ==
    /\ \A p \in Procs : runs[p] = 1 /\ pc[p] = "done"
    /\ \E i \in DOMAIN calls[2] :
          calls[2][i].op = "ADD" /\ calls[2][i].outcome = "exists"
    /\ \E i \in DOMAIN calls[2] :
          calls[2][i].op = "DROP" /\ calls[2][i].site = 157 /\ calls[2][i].outcome = "fail"
    /\ \E i \in DOMAIN calls[1] : calls[1][i].outcome = "ok"

----------------------------------------------------------------------------
(* Runs of one invocation slot with the warehouse changed in between by others *)

Statements == [op : {"ADD", "DROP", "SET"}, region : Regions]

\* after the first run that returned, and before the next one, somebody else
\* has statements accepted by the warehouse
ExternalChange ==
    /\ pc[1] = "done"
    /\ ~prev[1].ran
    /\ runs[1] < MaxRuns
    /\ \E q \in Statements :
         /\ "ok" \in DdlOutcomes(live, q)
         /\ live' = DdlEffect(live, q, "ok")
         /\ live' # live
    /\ UNCHANGED <<shared_vars, desired_replicas, desired_primary, pc, current, to_add, to_remove,
                   add_left, remove_left, sql, calls, needs, lastq, prev, runs,
                   access_vars, config_vars, applier_vars>>

NextFresh == Step(1) \/ ExternalChange

SpecFresh == Init /\ [][NextFresh]_vars

\* what a run owes for the live state l
DecisionFor(l) ==
    \/ l.replicas # ToSet(desired_replicas)
    \/ desired_primary # None /\ l.primary # desired_primary

\* C26: a run begins with its one metadata query, made before any mutating
\* call, and what it observes, decides and plans is a function of the live state
\* at that query and of the desired arguments alone, whatever earlier runs saw
\* and whatever was changed in between; every mutating call belongs to a run
\* that has made its query, and no second query is made within a run.
C26_ObserveEveryRun ==
    [][\A p \in Procs :
         /\ runs'[p] # runs[p] =>
              /\ Finished(p)
              /\ runs'[p] = runs[p] + 1
              /\ calls'[p] = <<>>
              /\ lastq'[p] \in QueryOutcomes(live)
              /\ lastq'[p] # "other" =>
                   /\ ToSet(current'[p].replicas) = live.replicas
                   /\ current'[p].primary = live.primary
                   /\ needs'[p] = Py(DecisionFor(live))
                   /\ to_add'[p] = IF DecisionFor(live)
                                   THEN ToSet(desired_replicas) \ live.replicas ELSE {}
                   /\ to_remove'[p] = IF DecisionFor(live)
                                      THEN live.replicas \ ToSet(desired_replicas) ELSE {}
         /\ calls'[p] # calls[p] /\ calls'[p] # <<>> =>
              /\ ~Finished(p)
              /\ runs'[p] = runs[p]
              /\ lastq'[p] = lastq[p]
              /\ current'[p] = current[p]
      ]_vars

\* a second run that follows a fully successful first run and an outside
\* change, and plans an ADD and a DROP against the changed state
C26_Witness ==
    /\ runs[1] = 2
    /\ prev[1].ran
    /\ prev[1].allok
    /\ prev[1].ncalls > 0
    /\ to_add[1] # {}
    /\ to_remove[1] # {}
    /\ to_add[1] = ToSet(desired_replicas) \ ToSet(current[1].replicas)

----------------------------------------------------------------------------
(* Properties of check-then-add *)

SameGrantee(a, b) == a.role = b.role /\ a.entity_type = b.entity_type

\* C25: under check-then-add the list never holds two entries for the same
\* grant, an enriched entry (same role and entity type, a superset of the
\* properties) and a later minimal one counting as the same grant.
C25_NoEnrichedDuplicate ==
    \A i, j \in DOMAIN access_entries :
        (i < j /\ SameGrantee(access_entries[i], access_entries[j]))
        => ~(access_entries[j].properties \subseteq access_entries[i].properties)

\* C25, amended: under check-then-add no entry is ever appended behind an
\* entry with its role, its entity type and a subset of its properties (so no
\* entry is held twice, and repeating the step for one candidate appends at
\* most once); each add appends exactly the candidate at the end and leaves the
\* entries before it as they were.
C25_NoCoveredDuplicate ==
    /\ [](\A i, j \in DOMAIN access_entries :
            (i < j /\ SameGrantee(access_entries[i], access_entries[j]))
            => ~(access_entries[i].properties \subseteq access_entries[j].properties))
    /\ [][access_entries' # access_entries =>
            /\ present = "False"
            /\ Len(access_entries') = Len(access_entries) + 1
            /\ Last(access_entries') = access_entry
            /\ SubSeq(access_entries', 1, Len(access_entries)) = access_entries
            /\ is_access_entry_in_dataset(access_entries', access_entry)]_vars

\* the step repeated for the candidate just added: the check says present
C25_Witness ==
    /\ Len(access_entries) = MaxEntries
    /\ Last(access_entries) = access_entry
    /\ present = "True"
    /\ \E i \in 1..(Len(access_entries) - 1) :
          /\ SameGrantee(access_entries[i], access_entry)
          /\ access_entry.properties \subseteq access_entries[i].properties
          /\ access_entry.properties # access_entries[i].properties

----------------------------------------------------------------------------
(* Properties of the serialized form *)

Serialized == restored # Unset

HasKey(d, key) == PyStr(key) \in Keys(d)

\* C22: to_dict() omits every field that is empty, None or its default: no
\* labels key for empty labels, no location key for the default "US", no
\* replication key without an enabled policy, no description or expiration key
\* when those are unset.
C22_MinimalForm ==
    Serialized =>
        LET d == to_dict(config)
        IN /\ ~bool(config.labels) => ~HasKey(d, "labels")
           /\ config.location = PyStr("US") => ~HasKey(d, "location")
           /\ ~bool(has_replication(config)) => ~HasKey(d, "replication")
           /\ config.description = PyNone => ~HasKey(d, "description")
           /\ config.default_table_expiration_ms = PyNone
                 => ~HasKey(d, "default_table_expiration_ms")
           /\ config.default_partition_expiration_ms = PyNone
                 => ~HasKey(d, "default_partition_expiration_ms")

\* C22, amended: to_dict() always carries name, location and labels with the
\* config's values, "US" and empty labels included; it carries replication
\* exactly when a policy is present, enabled or not, with the policy's three
\* fields; it carries description and each expiration exactly when the field is
\* truthy (neither None nor "" nor 0), with the field's value; and no other key.
C22_SerializedKeys ==
    Serialized =>
        LET d == to_dict(config)
            Optional(key, value) ==
                /\ HasKey(d, key) <=> bool(value)
                /\ bool(value) => Get(d, PyStr(key), Absent) = value
        IN /\ Get(d, PyStr("name"), Absent) = config.name
           /\ Get(d, PyStr("location"), Absent) = config.location
           /\ Get(d, PyStr("labels"), Absent) = config.labels
           /\ HasKey(d, "replication") <=> config.replication # PyNone
           /\ config.replication # PyNone =>
                 Get(d, PyStr("replication"), Absent) = Replication_to_dict(config.replication)
           /\ Optional("description", config.description)
           /\ Optional("default_table_expiration_ms", config.default_table_expiration_ms)
           /\ Optional("default_partition_expiration_ms",
                       config.default_partition_expiration_ms)
           /\ Keys(d) \subseteq {PyStr(k) : k \in {"name", "location", "labels",
                                     "replication", "description",
                                     "default_table_expiration_ms",
                                     "default_partition_expiration_ms"}}

\* a config with the default location, empty labels, a disabled policy, an
\* empty description and an expiration of 0 was serialized
C22_Witness ==
    /\ Serialized
    /\ config.location = PyStr("US")
    /\ config.labels = PyDict(<<>>)
    /\ config.replication # PyNone
    /\ ~bool(config.replication.enabled)
    /\ config.description = PyStr("")
    /\ config.default_table_expiration_ms = PyInt(0)
    /\ config.default_partition_expiration_ms = PyNone

----------------------------------------------------------------------------
(* Further properties of the applier *)

JustApplied == result.op = "apply_config_to_dataset"

\* C28: right after apply_config_to_dataset(dataset, schema),
\* should_update_dataset on the returned dataset and the same schema answers
\* False, and applying the same schema once more changes no attribute.
C28_ApplyReachesFixpoint ==
    [][(JustApplied /\ schema_name' = schema_name)
       => /\ result'.op = "should_update_dataset" => result'.value = PyBool(FALSE)
          /\ result'.op = "apply_config_to_dataset" => dataset' = dataset]_vars

\* the config was applied to a dataset for which should_update_dataset was
\* true before: every specified attribute now carries the config's value
C28_Witness ==
    /\ JustApplied
    /\ has_config(configs, schema_name)
    /\ \A a \in Applied : bool(Looked[a]) /\ PyEq(LiveValue(a), Looked[a])
    /\ ~should_update_dataset(configs, dataset, schema_name)
    /\ \E ds \in Datasets :
          /\ should_update_dataset(configs, ds, schema_name)
          /\ apply_config_to_dataset(configs, ds, schema_name) = dataset

----------------------------------------------------------------------------
(* Properties of change detection *)

Compared == result.op # "none"

\* C29: two configs of one name that give different results from
\* apply_config_to_dataset or should_update_dataset on a dataset, or from
\* get_replication_config, have different to_dict() values and different
\* inputs to the hash; so configs with equal to_dict() behave alike in all three.
C29_HashSoundForBehaviour ==
    (Compared /\ result.value # result.other)
    => /\ ~PyEq(to_dict(config), to_dict(other))
       /\ json_dumps(to_dict(config), TRUE) # json_dumps(to_dict(other), TRUE)

\* a config with an empty description and an expiration of 0 and one with both
\* unset were applied to a dataset, which they changed alike
C29_Witness ==
    /\ result.op = "apply_config_to_dataset"
    /\ config.description = PyStr("")
    /\ other.description = PyNone
    /\ config.default_table_expiration_ms = PyInt(0)
    /\ other.default_table_expiration_ms = PyNone
    /\ PyEq(to_dict(config), to_dict(other))
    /\ compute_hash(config) = compute_hash(other)
    /\ result.value = result.other
    /\ result.value # dataset

----------------------------------------------------------------------------
(* Properties of the stored configs *)

\* no dataset handed back and no replication mapping has been written to
OnlySnapshotTouched ==
    \A id \in Identities : id[2] # "config" => heap[id] = Loaded(AsBuilt)[id]

\* C21: whatever the caller does with the mapping get_all_configs returned
\* (adding keys, removing keys, changing a field of a config reached through
\* it), get_config, has_config and validate_all give what they gave before.
C21_SnapshotIndependence ==
    (all_configs # Unset /\ OnlySnapshotTouched)
    => /\ \A name \in SharedNames :
             /\ get_config(AsStored, name) = get_config(AsBuilt, name)
             /\ has_config(AsStored, name) <=> has_config(AsBuilt, name)
       /\ result.op = "validate_all" => result.value = validate_all(AsBuilt)

SharedLabels ==
    /\ second # Unset
    /\ dataset.labels # PyNone
    /\ dataset.labels = second.labels

\* C27: after any applier calls and any caller changes to the datasets and
\* mappings they returned, every stored config equals field for field what it
\* was when the registry was built, and two datasets that had the same config
\* applied share no labels object.
C27_StoredConfigsImmutable ==
    all_configs = Unset
    => /\ AsStored = AsBuilt
       /\ ~SharedLabels

====
